---- MODULE Spec2Model ----
(***************************************************************************)
(* Model of automotive-pricing-intelligence.py: a one-shot pandas script   *)
(* that loads a spreadsheet, cleans it, derives pricing columns and writes *)
(* CSV extracts and two histogram images.                                  *)
(*                                                                         *)
(* A cell is a record [k, v, d, s]:                                        *)
(*   k = "num"  the rational v/d (d >= 1, reduced); integers have d = 1    *)
(*   k = "inf"  +inf (v = 1) or -inf (v = -1), from a float division by 0  *)
(*   k = "nan"  numpy NaN, the missing value of a loaded sheet             *)
(*   k = "NA"   pandas pd.NA, the scalar the script assigns to a derived   *)
(*              column whose source column did not resolve                 *)
(*   k = "str"  a text, s its characters                                   *)
(* A row is [idx, c]: idx the pandas index label (the position in the      *)
(* sheet), c the cells by column name.  Floats are modelled as exact       *)
(* rationals: rounding is not represented.                                 *)
(***************************************************************************)
EXTENDS Integers, Sequences, FiniteSets, TLC

VARIABLES
    fileExists,   \* os.path.exists(file_name) when the run starts
    sheet,        \* the first worksheet of the file: [columns, rows]
    tieOrder,     \* how this build's quicksort orders equal keys
    disk,         \* the output files in the project folder
    pc,           \* position of the script
    df,           \* the DataFrame
    col_map,      \* logical role -> column name or None
    written,      \* files this run has written
    exitCode,     \* -1 while running, else the process exit code
    mi,           \* position of the final manifest loop
    run,          \* 1 for the first invocation, 2 for the second
    out1          \* the folder and the files written, as the first run left them

vars == <<fileExists, sheet, tieOrder, disk, pc, df, col_map, written, exitCode, mi, run, out1>>

None == "None"

-----------------------------------------------------------------------------
(* Cells *)

Num(n) == [k |-> "num", v |-> n, d |-> 1, s |-> <<>>]
NaN == [k |-> "nan", v |-> 0, d |-> 1, s |-> <<>>]
NA == [k |-> "NA", v |-> 0, d |-> 1, s |-> <<>>]
Inf(sign) == [k |-> "inf", v |-> sign, d |-> 1, s |-> <<>>]
Str(t) == [k |-> "str", v |-> 0, d |-> 1, s |-> t]

isna(x) == x.k \in {"nan", "NA"}

Abs(n) == IF n < 0 THEN -n ELSE n

RECURSIVE Gcd(_, _)
Gcd(a, b) == IF b = 0 THEN a ELSE Gcd(b, a % b)

\* the rational n/den (den # 0) as a reduced cell
Frac(n, den) ==
    LET g == Gcd(Abs(n), Abs(den))
        sg == IF den < 0 THEN -1 ELSE 1
    IN  [k |-> "num", v |-> sg * (n \div g), d |-> Abs(den) \div g, s |-> <<>>]

\* float arithmetic of pandas Series: a missing operand gives NaN
Sub(a, b) ==
    IF a.k = "num" /\ b.k = "num" THEN Frac(a.v * b.d - b.v * a.d, a.d * b.d)
    ELSE IF a.k = "inf" /\ b.k = "num" THEN a
    ELSE IF a.k = "num" /\ b.k = "inf" THEN Inf(-b.v)
    ELSE NaN

Mul(a, b) ==
    IF a.k = "num" /\ b.k = "num" THEN Frac(a.v * b.v, a.d * b.d)
    ELSE IF a.k = "inf" /\ b.k = "num" /\ b.v # 0 THEN Inf(IF b.v > 0 THEN a.v ELSE -a.v)
    ELSE IF a.k = "num" /\ b.k = "inf" /\ a.v # 0 THEN Inf(IF a.v > 0 THEN b.v ELSE -b.v)
    ELSE NaN

\* x / 0 is +-inf, 0 / 0 is NaN: no exception is raised
Div(a, b) ==
    IF a.k = "num" /\ b.k = "num" THEN
        IF b.v # 0 THEN Frac(a.v * b.d, a.d * b.v)
        ELSE IF a.v = 0 THEN NaN
        ELSE Inf(IF a.v > 0 THEN 1 ELSE -1)
    ELSE IF a.k = "inf" /\ b.k = "num" THEN Inf(IF b.v < 0 THEN -a.v ELSE a.v)
    ELSE NaN

\* a > b on floats; any comparison with a missing value is False
Gt(a, b) ==
    IF a.k = "num" /\ b.k = "num" THEN a.v * b.d > b.v * a.d
    ELSE IF a.k = "inf" /\ b.k = "num" THEN a.v = 1
    ELSE IF a.k = "num" /\ b.k = "inf" THEN b.v = -1
    ELSE IF a.k = "inf" /\ b.k = "inf" THEN a.v > b.v
    ELSE FALSE

Comparable(a) == a.k \in {"num", "inf"}
Ge(a, b) == Comparable(a) /\ Comparable(b) /\ ~Gt(b, a)
Le(a, b) == Ge(b, a)

-----------------------------------------------------------------------------
(* Text *)

DigitChars == <<"0", "1", "2", "3", "4", "5", "6", "7", "8", "9">>
IsDigit(ch) == \E i \in 1..10 : DigitChars[i] = ch
DigitVal(ch) == (CHOOSE i \in 1..10 : DigitChars[i] = ch) - 1

RECURSIVE Digits(_)
Digits(n) == IF n < 10 THEN <<DigitChars[n + 1]>> ELSE Append(Digits(n \div 10), DigitChars[(n % 10) + 1])

\* str(x) of a cell of an object column
astype_str(x) ==
    IF x.k = "str" THEN x
    ELSE IF x.k = "num" THEN Str(IF x.v < 0 THEN <<"-">> \o Digits(-x.v) ELSE Digits(x.v))
    ELSE Str(<<"n", "a", "n">>)

RECURSIVE lstrip(_)
lstrip(t) == IF t # <<>> /\ Head(t) = " " THEN lstrip(Tail(t)) ELSE t

RECURSIVE rstrip(_)
rstrip(t) == IF t # <<>> /\ t[Len(t)] = " " THEN rstrip(SubSeq(t, 1, Len(t) - 1)) ELSE t

strip(x) == Str(lstrip(rstrip(x.s)))

RECURSIVE ParseNat(_)
ParseNat(t) == IF t = <<>> THEN 0 ELSE 10 * ParseNat(SubSeq(t, 1, Len(t) - 1)) + DigitVal(t[Len(t)])

AllDigits(t) == t # <<>> /\ \A i \in 1..Len(t) : IsDigit(t[i])

\* pd.to_numeric(errors='coerce') on one cell
to_numeric(x) ==
    IF x.k = "str" THEN
        IF AllDigits(x.s) THEN Num(ParseNat(x.s))
        ELSE IF Len(x.s) > 1 /\ x.s[1] = "-" /\ AllDigits(Tail(x.s)) THEN Num(-ParseNat(Tail(x.s)))
        ELSE NaN
    ELSE x

-----------------------------------------------------------------------------
(* Program constants *)

file_name == "automotive_pricing_bi_dataset.xlsx"
clean_name == "cleaned_automotive_pricing.csv"
top_name == "top20_by_revenue.csv"
over_name == "parts_overpriced_gt10pct.csv"
lmhs_name == "low_margin_high_sales.csv"
chart_price_name == "chart_price_distribution.png"
chart_pct_name == "chart_price_pct_diff.png"
top10_name == "top10_profitable_parts.csv"

\* the list the final loop walks
ManifestFiles == <<clean_name, top_name, over_name, lmhs_name, chart_price_name, chart_pct_name>>

AllFiles == {clean_name, top_name, over_name, lmhs_name, chart_price_name, chart_pct_name, top10_name}

PriceNames == <<"Price", "price", "Unit_Price">>
CompetitorNames == <<"Competitor_Price", "competitor_price", "Comp_Price", "Competitor price">>
CostNames == <<"Cost", "cost", "Unit_Cost">>
UnitsNames == <<"Units_Sold", "Units", "Quantity", "units_sold">>
PartNames == <<"Part_Name", "Part", "Part_ID", "PartName">>
RevenueNames == <<"Revenue", "revenue">>

Roles == {"price", "competitor_price", "cost", "units", "part"}
NumericRoles == {"price", "competitor_price", "cost", "units"}

\* head(20)
TopN == 20
\* Price_pct_diff > 10
OverPct == 10

-----------------------------------------------------------------------------
(* DataFrame operations *)

\* the rows of s at the positions in S, in order
RECURSIVE TakeIdx(_, _, _)
TakeIdx(s, S, i) ==
    IF i > Len(s) THEN <<>>
    ELSE IF i \in S THEN <<s[i]>> \o TakeIdx(s, S, i + 1)
    ELSE TakeIdx(s, S, i + 1)

\* first name of the list that is a column, else None
find_col(possible_names, columns) ==
    IF \E i \in 1..Len(possible_names) : possible_names[i] \in columns
    THEN possible_names[CHOOSE i \in 1..Len(possible_names) :
            /\ possible_names[i] \in columns
            /\ \A j \in 1..(i - 1) : possible_names[j] \notin columns]
    ELSE None

\* pd.read_excel: the rows get the index labels 0..n-1 (here 1..n)
read_excel(sh) ==
    [columns |-> sh.columns, rows |-> [i \in 1..Len(sh.rows) |-> [idx |-> i, c |-> sh.rows[i]]]]

\* select_dtypes(include=['object']): a column holding a text cell is loaded as object
text_cols(d) == {c \in d.columns : \E i \in 1..Len(d.rows) : d.rows[i].c[c].k = "str"}

strip_cell(x) == strip(astype_str(x))

\* df[c].astype(str).str.strip() for every object column
strip_text(d) ==
    [columns |-> d.columns,
     rows |-> [i \in 1..Len(d.rows) |->
        [idx |-> d.rows[i].idx,
         c |-> [c \in d.columns |->
                 IF c \in text_cols(d) THEN strip_cell(d.rows[i].c[c]) ELSE d.rows[i].c[c]]]]]

resolve(columns) ==
    [r \in Roles |->
        CASE r = "price" -> find_col(PriceNames, columns)
          [] r = "competitor_price" -> find_col(CompetitorNames, columns)
          [] r = "cost" -> find_col(CostNames, columns)
          [] r = "units" -> find_col(UnitsNames, columns)
          [] r = "part" -> find_col(PartNames, columns)]

\* pd.to_numeric on the resolved numeric columns
convert_numeric(d, cm) ==
    LET cs == {cm[r] : r \in {q \in NumericRoles : cm[q] # None}}
    IN  [columns |-> d.columns,
         rows |-> [i \in 1..Len(d.rows) |->
            [idx |-> d.rows[i].idx,
             c |-> [c \in d.columns |->
                     IF c \in cs THEN to_numeric(d.rows[i].c[c]) ELSE d.rows[i].c[c]]]]]

\* df.drop_duplicates() whose result is not assigned
drop_duplicates_unassigned(rows) == rows

\* keep the first of every group of rows with equal cells (the index is not compared)
drop_duplicates(rows) ==
    TakeIdx(rows, {i \in 1..Len(rows) : \A j \in 1..(i - 1) : rows[j].c # rows[i].c}, 1)

\* keep the rows with a value in every column of subset
dropna(rows, subset) ==
    TakeIdx(rows, {i \in 1..Len(rows) : \A c \in subset : ~isna(rows[i].c[c])}, 1)

\* a check that forgets the part identifier
mandatory_missing_price_only(cm) == cm["price"] = None

\* line 64
mandatory_missing(cm) == cm["price"] = None \/ cm["part"] = None

\* a fraction where the script computes a percentage
price_pct_diff_fraction(diff, comp) == Div(diff, comp)

\* line 78: df['Price_diff'] / df[cp] * 100
price_pct_diff(diff, comp) == Mul(Div(diff, comp), Num(100))

\* the four derived columns, attached to every row
derive(d, cm) ==
    LET cp == cm["competitor_price"]
        co == cm["cost"]
        pr == cm["price"]
        un == cm["units"]
        diff(r) == IF cp # None THEN Sub(r.c[pr], r.c[cp]) ELSE NA
        cols == d.columns \cup {"Price_diff", "Price_pct_diff", "Margin", "Revenue_calc"}
        cell(r, c) ==
            CASE c = "Price_diff" -> diff(r)
              [] c = "Price_pct_diff" ->
                    IF cp # None THEN price_pct_diff(diff(r), r.c[cp]) ELSE NA
              [] c = "Margin" -> IF co # None THEN Sub(r.c[pr], r.c[co]) ELSE NA
              [] c = "Revenue_calc" -> IF un # None THEN Mul(r.c[pr], r.c[un]) ELSE NA
              [] OTHER -> r.c[c]
    IN  [columns |-> cols,
         rows |-> [i \in 1..Len(d.rows) |->
                    [idx |-> d.rows[i].idx, c |-> [c \in cols |-> cell(d.rows[i], c)]]]]

\* rows with a comparable key, largest first.  tie = "original" keeps equal keys in
\* their order (a stable sort); tie = "reversed" is a build whose quicksort does not.
RECURSIVE sort_keys_desc(_, _, _)
sort_keys_desc(s, by, tie) ==
    IF s = <<>> THEN <<>>
    ELSE LET rest == sort_keys_desc(SubSeq(s, 1, Len(s) - 1), by, tie)
             x == s[Len(s)]
             n == Cardinality({i \in 1..Len(rest) :
                     \/ Gt(rest[i].c[by], x.c[by])
                     \/ (tie = "original" /\ ~Gt(x.c[by], rest[i].c[by]))})
         IN  SubSeq(rest, 1, n) \o <<x>> \o SubSeq(rest, n + 1, Len(rest))

\* numpy's quicksort sorts a run of up to SmallQuicksort + 1 elements by insertion,
\* which keeps equal keys in order; a longer array is partitioned, which does not
SmallQuicksort == 16

\* df.sort_values(by, ascending=False): kind defaults to quicksort; the rows whose
\* key is missing go last, in their original order
sort_values(rows, by, tie) ==
    LET keyed == TakeIdx(rows, {i \in 1..Len(rows) : ~isna(rows[i].c[by])}, 1)
        missing == TakeIdx(rows, {i \in 1..Len(rows) : isna(rows[i].c[by])}, 1)
    IN  sort_keys_desc(keyed, by, IF Len(keyed) > SmallQuicksort + 1 THEN tie ELSE "original")
            \o missing

\* one row too many
head_off_by_one(rows, n) == SubSeq(rows, 1, IF Len(rows) < n + 1 THEN Len(rows) ELSE n + 1)

head(rows, n) == SubSeq(rows, 1, IF Len(rows) < n THEN Len(rows) ELSE n)

\* the revenue source of the top-20 extract
rev_col(columns) ==
    LET r == find_col(RevenueNames, columns)
        c == IF r # None THEN r ELSE "Revenue_calc"
    IN  IF c \notin columns THEN "Revenue_calc" ELSE c

RECURSIVE sort_cells_asc(_)
sort_cells_asc(s) ==
    IF s = <<>> THEN <<>>
    ELSE LET rest == sort_cells_asc(SubSeq(s, 1, Len(s) - 1))
             x == s[Len(s)]
             n == Cardinality({i \in 1..Len(rest) : ~Gt(rest[i], x)})
         IN  SubSeq(rest, 1, n) \o <<x>> \o SubSeq(rest, n + 1, Len(rest))

column(rows, c) == [i \in 1..Len(rows) |-> rows[i].c[c]]

\* Series.quantile(q4 / 4): missing values skipped, linear interpolation
quantile(rows, c, q4) ==
    LET vals == sort_cells_asc(TakeIdx(column(rows, c), {i \in 1..Len(rows) : ~isna(rows[i].c[c])}, 1))
        n == Len(vals)
        h == (n - 1) * q4
        lo == (h \div 4) + 1
        fr == h % 4
    IN  IF n = 0 THEN NaN
        ELSE IF fr = 0 THEN vals[lo]
        ELSE Sub(vals[lo], Mul(Frac(fr, 4), Sub(vals[lo], vals[lo + 1])))

\* the table is cut without being sorted
top_revenue_unsorted(d, tie) == SubSeq(d.rows, 1, IF Len(d.rows) < TopN THEN Len(d.rows) ELSE TopN)

\* line 93
top_revenue(d, tie) == head(sort_values(d.rows, rev_col(d.columns), tie), TopN)

overpriced(d, tie) ==
    LET over == {i \in 1..Len(d.rows) : Gt(d.rows[i].c["Price_pct_diff"], Num(OverPct))}
    IN  sort_values(TakeIdx(d.rows, over, 1), "Price_pct_diff", tie)

\* the units percentile taken over the low-margin rows only
low_margin_high_sales_nested(d, cm, tie) ==
    LET un == cm["units"]
        margin_q == quantile(d.rows, "Margin", 1)
        low == TakeIdx(d.rows, {i \in 1..Len(d.rows) : Le(d.rows[i].c["Margin"], margin_q)}, 1)
        units_q == quantile(low, un, 3)
        sel == {i \in 1..Len(d.rows) :
                  Le(d.rows[i].c["Margin"], margin_q) /\ Ge(d.rows[i].c[un], units_q)}
    IN  sort_values(TakeIdx(d.rows, sel, 1), un, tie)

\* lines 108-110
low_margin_high_sales(d, cm, tie) ==
    LET un == cm["units"]
        margin_q == quantile(d.rows, "Margin", 1)
        units_q == quantile(d.rows, un, 3)
        sel == {i \in 1..Len(d.rows) :
                  Le(d.rows[i].c["Margin"], margin_q) /\ Ge(d.rows[i].c[un], units_q)}
    IN  sort_values(TakeIdx(d.rows, sel, 1), un, tie)

\* the values a histogram is drawn from: Series.dropna()
hist_values(rows, c) ==
    TakeIdx(column(rows, c), {i \in 1..Len(rows) : ~isna(rows[i].c[c])}, 1)

\* numpy refuses a histogram range that is not finite
hist_raises(values) == \E i \in 1..Len(values) : values[i].k = "inf"

-----------------------------------------------------------------------------
(* Files *)

Absent == [exists |-> FALSE, columns |-> {}, data |-> <<>>]

\* to_csv(index=False): the columns and the rows' cells, without the index
csv_of(columns, rows) ==
    [exists |-> TRUE, columns |-> columns, data |-> [i \in 1..Len(rows) |-> rows[i].c]]

png_of(values) == [exists |-> TRUE, columns |-> {}, data |-> values]

\* a file opened for appending
write_file_append(dk, name, content) ==
    [dk EXCEPT ![name] = [exists |-> TRUE, columns |-> content.columns, data |-> @.data \o content.data]]

\* to_csv / savefig create or overwrite the file
write_file(dk, name, content) == [dk EXCEPT ![name] = content]

os_path_exists(dk, name) == dk[name].exists

\* sys.exit(1) when the input file is not there
input_missing == ~fileExists

\* the extra analytics block, run for every listed file that exists
ExtraBefore == {"Brand", "Revenue", "Region", "Gross_Margin_%", "Profit"}
ExtraAfter == {"Cost", "Price", "Profit"}
Top10N == 10
top_profit_parts(d, tie) == head(sort_values(d.rows, "Profit", tie), Top10N)

-----------------------------------------------------------------------------
(* Inputs *)

\* longest sheet of profile rows
MaxRows == 2
\* longest sheet of the margin/units family
MaxQuantRows == 4
\* longest sheet of the revenue-ranking family
MaxTopRows == 22

MainColumns == {"Price", "Competitor_Price", "Cost", "Units_Sold", "Part_Name", "Revenue"}
ExtraColumns == {"Brand", "Region", "Gross_Margin_%", "Profit"}
InputColumns == MainColumns \cup ExtraColumns

Schemas == {m \cup e : m \in SUBSET MainColumns, e \in {{}, ExtraColumns}}

Profile(price, comp, cost, units, part, revenue, profit) ==
    [c \in InputColumns |->
        CASE c = "Price" -> price
          [] c = "Competitor_Price" -> comp
          [] c = "Cost" -> cost
          [] c = "Units_Sold" -> units
          [] c = "Part_Name" -> part
          [] c = "Revenue" -> revenue
          [] c = "Brand" -> Str(<<"b", " ">>)
          [] c = "Region" -> Str(<<"r">>)
          [] c = "Gross_Margin_%" -> Num(1)
          [] c = "Profit" -> profit]

\* the two examples of the specification (rows 1 and 3), a row that differs from the
\* first in whitespace only, a zero competitor price, a price typed as text, a row
\* without part identifier and a price that is no number
Profiles ==
    { Profile(Num(120), Num(100), Num(30), Num(4), Str(<<"a">>), Num(5), Num(1)),
      Profile(Num(120), Num(100), Num(30), Num(4), Str(<<"a", " ">>), Num(5), Num(1)),
      Profile(Num(50), Num(0), Num(30), Num(4), Str(<<" ", "c">>), NaN, Num(2)),
      Profile(Str(<<" ", "5", "0">>), Num(40), NaN, NaN, NaN, Num(9), Num(2)),
      Profile(Str(<<"x">>), NaN, Num(60), Num(1), Num(7), Num(5), NaN) }

Project(row, columns) == [c \in columns |-> row[c]]

SeqsUpTo(S, n) == UNION {[1..k -> S] : k \in 0..n}

NoFiles == [f \in AllFiles |-> Absent]
StaleFile == [exists |-> TRUE, columns |-> {"Old"}, data |-> <<[Old |-> NaN]>>]
StaleFolders == {[f \in AllFiles |-> IF f \in S THEN StaleFile ELSE Absent] :
                    S \in {AllFiles, {over_name, top10_name}}}

EmptyDf == [columns |-> {}, rows |-> <<>>]
NoColMap == [r \in Roles |-> None]

\* the file is not there
InitAbsent ==
    /\ fileExists = FALSE
    /\ sheet = EmptyDf
    /\ tieOrder \in {"original", "reversed"}
    /\ disk \in {NoFiles} \cup StaleFolders

\* every schema, short sheets of profile rows
InitSmall ==
    /\ fileExists = TRUE
    /\ \E columns \in Schemas, rows \in SeqsUpTo(Profiles, MaxRows) :
          sheet = [columns |-> columns,
                   rows |-> [i \in 1..Len(rows) |-> Project(rows[i], columns)]]
    /\ tieOrder = "original"
    /\ disk = NoFiles

\* every schema, one row, files of an earlier run in the folder
InitStale ==
    /\ fileExists = TRUE
    /\ \E columns \in Schemas :
          sheet = [columns |-> columns,
                   rows |-> <<Project(Profile(Num(120), Num(100), Num(30), Num(4),
                                              Str(<<"a">>), Num(5), Num(1)), columns)>>]
    /\ tieOrder = "original"
    /\ disk \in StaleFolders

QuantColumns == {"Price", "Cost", "Units_Sold", "Part_Name"}

\* price 50, distinct part numbers, every mix of two costs and two unit counts;
\* the first row may miss its cost or its units
InitQuant ==
    /\ fileExists = TRUE
    /\ \E n \in 1..MaxQuantRows :
       \E cost \in [1..n -> {Num(10), Num(30), NaN}], units \in [1..n -> {Num(1), Num(4), NaN}] :
          /\ \A i \in 2..n : cost[i] # NaN /\ units[i] # NaN
          /\ sheet = [columns |-> QuantColumns,
                      rows |-> [i \in 1..n |->
                        [c \in QuantColumns |->
                            CASE c = "Price" -> Num(50)
                              [] c = "Cost" -> cost[i]
                              [] c = "Units_Sold" -> units[i]
                              [] c = "Part_Name" -> Num(i)]]]
    /\ tieOrder \in {"original", "reversed"}
    /\ disk = NoFiles

TopColumns == {"Price", "Units_Sold", "Part_Name"}

\* price 1 and units 1 in every row but at most one, distinct part numbers:
\* revenue ties that reach across the 20-row cut
InitTop ==
    /\ fileExists = TRUE
    /\ \E n \in 0..MaxTopRows, k \in 0..MaxTopRows, u \in {Num(0), Num(2), NaN} :
          /\ k <= n
          /\ (k = 0 => u = NaN)
          /\ sheet = [columns |-> TopColumns,
                      rows |-> [i \in 1..n |->
                        [c \in TopColumns |->
                            CASE c = "Price" -> Num(1)
                              [] c = "Units_Sold" -> IF i = k THEN u ELSE Num(1)
                              [] c = "Part_Name" -> Num(i)]]]
    /\ tieOrder \in {"original", "reversed"}
    /\ disk = NoFiles

Init ==
    /\ InitAbsent \/ InitSmall \/ InitStale \/ InitQuant \/ InitTop
    /\ pc = "start"
    /\ df = EmptyDf
    /\ col_map = NoColMap
    /\ written = {}
    /\ exitCode = -1
    /\ mi = 1
    /\ run = 1
    /\ out1 = [disk |-> disk, written |-> {}, exitCode |-> -1]

-----------------------------------------------------------------------------
(* The script, top to bottom *)

cp == col_map["competitor_price"]
co == col_map["cost"]
pr == col_map["price"]
un == col_map["units"]

Save(name, content) ==
    /\ disk' = write_file(disk, name, content)
    /\ written' = written \cup {name}

\* lines 13-17
FileMissing ==
    /\ pc = "start" /\ input_missing
    /\ pc' = "fatal" /\ exitCode' = 1
    /\ UNCHANGED <<fileExists, sheet, tieOrder, disk, df, col_map, written, mi, run, out1>>

\* line 20
Load ==
    /\ pc = "start" /\ ~input_missing
    /\ df' = read_excel(sheet)
    /\ pc' = "loaded"
    /\ UNCHANGED <<fileExists, sheet, tieOrder, disk, col_map, written, exitCode, mi, run, out1>>

\* lines 25-31
StripText ==
    /\ pc = "loaded"
    /\ df' = strip_text(df)
    /\ pc' = "stripped"
    /\ UNCHANGED <<fileExists, sheet, tieOrder, disk, col_map, written, exitCode, mi, run, out1>>

\* lines 34-49
ResolveColumns ==
    /\ pc = "stripped"
    /\ col_map' = resolve(df.columns)
    /\ pc' = "resolved"
    /\ UNCHANGED <<fileExists, sheet, tieOrder, disk, df, written, exitCode, mi, run, out1>>

\* lines 51-55
ConvertNumeric ==
    /\ pc = "resolved"
    /\ df' = convert_numeric(df, col_map)
    /\ pc' = "numeric"
    /\ UNCHANGED <<fileExists, sheet, tieOrder, disk, col_map, written, exitCode, mi, run, out1>>

\* lines 57-61
RemoveDuplicates ==
    /\ pc = "numeric"
    /\ df' = [df EXCEPT !.rows = drop_duplicates(@)]
    /\ pc' = "deduped"
    /\ UNCHANGED <<fileExists, sheet, tieOrder, disk, col_map, written, exitCode, mi, run, out1>>

\* lines 64-66
MandatoryMissing ==
    /\ pc = "deduped" /\ mandatory_missing(col_map)
    /\ pc' = "fatal" /\ exitCode' = 1
    /\ UNCHANGED <<fileExists, sheet, tieOrder, disk, df, col_map, written, mi, run, out1>>

\* lines 68-69
DropMissing ==
    /\ pc = "deduped" /\ ~mandatory_missing(col_map)
    /\ df' = [df EXCEPT !.rows = dropna(@, {col_map["price"], col_map["part"]} \ {None})]
    /\ pc' = "dropped"
    /\ UNCHANGED <<fileExists, sheet, tieOrder, disk, col_map, written, exitCode, mi, run, out1>>

\* lines 71-80
Derive ==
    /\ pc = "dropped"
    /\ df' = derive(df, col_map)
    /\ pc' = "derived"
    /\ UNCHANGED <<fileExists, sheet, tieOrder, disk, col_map, written, exitCode, mi, run, out1>>

\* lines 82-85
SaveCleaned ==
    /\ pc = "derived"
    /\ Save(clean_name, csv_of(df.columns, df.rows))
    /\ pc' = "saved"
    /\ UNCHANGED <<fileExists, sheet, tieOrder, df, col_map, exitCode, mi, run, out1>>

\* lines 89-95
SaveTopRevenue ==
    /\ pc = "saved"
    /\ Save(top_name, csv_of(df.columns, top_revenue(df, tieOrder)))
    /\ pc' = "top"
    /\ UNCHANGED <<fileExists, sheet, tieOrder, df, col_map, exitCode, mi, run, out1>>

\* lines 98-101
SaveOverpriced ==
    /\ pc = "top" /\ cp # None
    /\ Save(over_name, csv_of(df.columns, overpriced(df, tieOrder)))
    /\ pc' = "over"
    /\ UNCHANGED <<fileExists, sheet, tieOrder, df, col_map, exitCode, mi, run, out1>>

\* lines 102-103
SkipOverpriced ==
    /\ pc = "top" /\ cp = None
    /\ pc' = "over"
    /\ UNCHANGED <<fileExists, sheet, tieOrder, disk, df, col_map, written, exitCode, mi, run, out1>>

\* lines 106-112
SaveLowMargin ==
    /\ pc = "over" /\ co # None /\ un # None
    /\ Save(lmhs_name, csv_of(df.columns, low_margin_high_sales(df, col_map, tieOrder)))
    /\ pc' = "lmhs"
    /\ UNCHANGED <<fileExists, sheet, tieOrder, df, col_map, exitCode, mi, run, out1>>

\* lines 113-114
SkipLowMargin ==
    /\ pc = "over" /\ ~(co # None /\ un # None)
    /\ pc' = "lmhs"
    /\ UNCHANGED <<fileExists, sheet, tieOrder, disk, df, col_map, written, exitCode, mi, run, out1>>

\* lines 117-125
PriceChart ==
    /\ pc = "lmhs"
    /\ Save(chart_price_name, png_of(hist_values(df.rows, pr)))
    /\ pc' = "chart1"
    /\ UNCHANGED <<fileExists, sheet, tieOrder, df, col_map, exitCode, mi, run, out1>>

\* lines 127-136
PctChart ==
    /\ pc = "chart1" /\ cp # None
    /\ ~hist_raises(hist_values(df.rows, "Price_pct_diff"))
    /\ Save(chart_pct_name, png_of(hist_values(df.rows, "Price_pct_diff")))
    /\ pc' = "chart2"
    /\ UNCHANGED <<fileExists, sheet, tieOrder, df, col_map, exitCode, mi, run, out1>>

\* line 129: ValueError out of hist when a value is infinite
PctChartRaises ==
    /\ pc = "chart1" /\ cp # None
    /\ hist_raises(hist_values(df.rows, "Price_pct_diff"))
    /\ pc' = "crashed" /\ exitCode' = 1
    /\ UNCHANGED <<fileExists, sheet, tieOrder, disk, df, col_map, written, mi, run, out1>>

\* lines 137-138
SkipPctChart ==
    /\ pc = "chart1" /\ cp = None
    /\ pc' = "chart2"
    /\ UNCHANGED <<fileExists, sheet, tieOrder, disk, df, col_map, written, exitCode, mi, run, out1>>

\* lines 141-144: a listed file that does not exist
ManifestSkip ==
    /\ pc = "chart2" /\ mi <= Len(ManifestFiles)
    /\ ~os_path_exists(disk, ManifestFiles[mi])
    /\ mi' = mi + 1
    /\ UNCHANGED <<fileExists, sheet, tieOrder, disk, pc, df, col_map, written, exitCode, run, out1>>

\* lines 144-163: KeyError at the first column the block does not find
ExtraRaisesEarly ==
    /\ pc = "chart2" /\ mi <= Len(ManifestFiles)
    /\ os_path_exists(disk, ManifestFiles[mi])
    /\ ~(ExtraBefore \subseteq df.columns)
    /\ pc' = "crashed" /\ exitCode' = 1
    /\ UNCHANGED <<fileExists, sheet, tieOrder, disk, df, col_map, written, mi, run, out1>>

\* lines 144-169: top10 written, then KeyError at the correlation
ExtraRaisesLate ==
    /\ pc = "chart2" /\ mi <= Len(ManifestFiles)
    /\ os_path_exists(disk, ManifestFiles[mi])
    /\ ExtraBefore \subseteq df.columns
    /\ ~(ExtraAfter \subseteq df.columns)
    /\ Save(top10_name, csv_of(df.columns, top_profit_parts(df, tieOrder)))
    /\ pc' = "crashed" /\ exitCode' = 1
    /\ UNCHANGED <<fileExists, sheet, tieOrder, df, col_map, mi, run, out1>>

\* lines 144-171: the block runs through
ExtraAnalytics ==
    /\ pc = "chart2" /\ mi <= Len(ManifestFiles)
    /\ os_path_exists(disk, ManifestFiles[mi])
    /\ ExtraBefore \subseteq df.columns
    /\ ExtraAfter \subseteq df.columns
    /\ Save(top10_name, csv_of(df.columns, top_profit_parts(df, tieOrder)))
    /\ mi' = mi + 1
    /\ UNCHANGED <<fileExists, sheet, tieOrder, pc, df, col_map, exitCode, run, out1>>

\* the script ends
Finish ==
    /\ pc = "chart2" /\ mi > Len(ManifestFiles)
    /\ pc' = "done" /\ exitCode' = 0
    /\ UNCHANGED <<fileExists, sheet, tieOrder, disk, df, col_map, written, mi, run, out1>>

Terminated == pc \in {"fatal", "crashed", "done"}

\* the script is started again on the same file, in the folder as the first run left it
Rerun ==
    /\ Terminated /\ run = 1
    /\ out1' = [disk |-> disk, written |-> written, exitCode |-> exitCode]
    /\ run' = 2
    /\ pc' = "start" /\ df' = EmptyDf /\ col_map' = NoColMap
    /\ written' = {} /\ exitCode' = -1 /\ mi' = 1
    /\ UNCHANGED <<fileExists, sheet, tieOrder, disk>>

Next ==
    \/ FileMissing \/ Load \/ StripText \/ ResolveColumns \/ ConvertNumeric
    \/ RemoveDuplicates \/ MandatoryMissing \/ DropMissing \/ Derive
    \/ SaveCleaned \/ SaveTopRevenue \/ SaveOverpriced \/ SkipOverpriced
    \/ SaveLowMargin \/ SkipLowMargin \/ PriceChart \/ PctChart \/ PctChartRaises
    \/ SkipPctChart \/ ManifestSkip \/ ExtraRaisesEarly \/ ExtraRaisesLate
    \/ ExtraAnalytics \/ Finish \/ Rerun

Spec == Init /\ [][Next]_vars

-----------------------------------------------------------------------------
(* Properties *)

\* one of the two fatal conditions holds of the input
FatalCondition ==
    \/ ~fileExists
    \/ find_col(PriceNames, sheet.columns) = None
    \/ find_col(PartNames, sheet.columns) = None

\* df is the cleaned table
AfterClean ==
    pc \in {"dropped", "derived", "saved", "top", "over", "lmhs", "chart1", "chart2", "done", "crashed"}

AfterDerive == AfterClean /\ pc # "dropped"

CleanData == disk[clean_name].data
TopData == disk[top_name].data
LowData == disk[lmhs_name].data

\* C1: every row of the cleaned table has a price and a part identifier, and no row
\* whose part-identifier cell is missing in the sheet is in the cleaned table
C1_CleanedRowsHaveKeys ==
    AfterClean =>
        \A i \in 1..Len(df.rows) :
            /\ ~isna(df.rows[i].c[col_map["price"]])
            /\ ~isna(df.rows[i].c[col_map["part"]])
            /\ ~isna(sheet.rows[df.rows[i].idx][col_map["part"]])

\* C2: the process exits non-zero exactly when the file is absent or price or part
\* identifier does not resolve; every other run ends with exit code zero
C2_ExitCodes ==
    Terminated => ((exitCode # 0) <=> FatalCondition)

\* C3: under a fatal condition the run writes no file at any point, never gets past
\* the mandatory-column check, and ends in sys.exit(1); only such a run ends there
C3_FatalWritesNothing ==
    /\ FatalCondition =>
          /\ written = {}
          /\ disk = out1.disk
          /\ pc \in {"start", "loaded", "stripped", "resolved", "numeric", "deduped", "fatal"}
          /\ (Terminated => pc = "fatal" /\ exitCode = 1)
    /\ pc = "fatal" => FatalCondition /\ written = {}

C3_Witness ==
    /\ pc = "fatal" /\ fileExists /\ Len(df.rows) > 0
    /\ find_col(PriceNames, sheet.columns) # None
    /\ \E f \in AllFiles : os_path_exists(disk, f)

NoDuplicates(data) == \A i, j \in 1..Len(data) : i < j => data[i] # data[j]

IsInt(x) == x.k = "num" /\ x.d = 1

\* C5: the derived columns of every cleaned row: Price_diff = price - competitor price
\* and Price_pct_diff = Price_diff / competitor price * 100 when competitor price
\* resolved, Margin = price - cost when cost resolved, Revenue_calc = price * units
\* when units resolved; a derived column whose source did not resolve is missing in
\* every row (a missing source cell gives a missing value)
C5_DerivedColumns ==
    AfterDerive =>
        \A i \in 1..Len(df.rows) :
            LET r == df.rows[i].c
                price == r[col_map["price"]]
            IN  /\ IsInt(price)
                /\ IF cp = None THEN r["Price_diff"] = NA /\ r["Price_pct_diff"] = NA
                   ELSE IF IsInt(r[cp]) THEN
                        /\ r["Price_diff"] = Num(price.v - r[cp].v)
                        /\ r[cp].v # 0 =>
                              /\ r["Price_pct_diff"].k = "num"
                              /\ r["Price_pct_diff"].v * r[cp].v
                                    = (price.v - r[cp].v) * 100 * r["Price_pct_diff"].d
                   ELSE isna(r["Price_diff"]) /\ isna(r["Price_pct_diff"])
                /\ IF co = None THEN r["Margin"] = NA
                   ELSE IF IsInt(r[co]) THEN r["Margin"] = Num(price.v - r[co].v)
                   ELSE isna(r["Margin"])
                /\ IF un = None THEN r["Revenue_calc"] = NA
                   ELSE IF IsInt(r[un]) THEN r["Revenue_calc"] = Num(price.v * r[un].v)
                   ELSE isna(r["Revenue_calc"])

\* the two examples of the specification, in one table
C5_Witness ==
    /\ pc = "derived" /\ cp # None /\ co # None /\ un # None
    /\ \E i \in 1..Len(df.rows) :
          /\ df.rows[i].c[pr] = Num(120) /\ df.rows[i].c[cp] = Num(100)
          /\ df.rows[i].c["Price_diff"] = Num(20) /\ df.rows[i].c["Price_pct_diff"] = Num(20)
    /\ \E i \in 1..Len(df.rows) :
          /\ df.rows[i].c[pr] = Num(50) /\ df.rows[i].c[co] = Num(30) /\ df.rows[i].c[un] = Num(4)
          /\ df.rows[i].c["Margin"] = Num(20) /\ df.rows[i].c["Revenue_calc"] = Num(200)

\* the files the specification lets a run write, from the columns of the sheet
ExpectedFiles ==
    LET cm == resolve(sheet.columns)
    IN  {clean_name, top_name, chart_price_name}
        \cup (IF cm["competitor_price"] # None THEN {over_name, chart_pct_name} ELSE {})
        \cup (IF cm["cost"] # None /\ cm["units"] # None THEN {lmhs_name} ELSE {})

\* C6: a run that passes the two fatal checks writes the cleaned CSV, the top-20 CSV
\* and the price histogram, the over-priced extract and the percent histogram iff
\* competitor price resolved, the low-margin extract iff cost and units resolved,
\* and no other file
C6_OutputSet ==
    (Terminated /\ ~FatalCondition) => written = ExpectedFiles

Min(a, b) == IF a < b THEN a ELSE b

\* the revenue source the specification names
RevenueSource ==
    IF "Revenue" \in sheet.columns THEN "Revenue"
    ELSE IF "revenue" \in sheet.columns THEN "revenue"
    ELSE "Revenue_calc"

Rows(data) == {data[i] : i \in 1..Len(data)}

\* C7: the top-20 extract has min(20, cleaned rows) rows, each a row of the cleaned
\* table and none twice, in non-increasing order of the revenue source (missing
\* revenue last), and no cleaned row outside it has a larger revenue than a row in it
C7_TopRevenue ==
    top_name \in written =>
        /\ Len(TopData) = Min(TopN, Len(CleanData))
        /\ Rows(TopData) \subseteq Rows(CleanData)
        /\ NoDuplicates(TopData)
        /\ \A i, j \in 1..Len(TopData) : i < j =>
              /\ ~Gt(TopData[j][RevenueSource], TopData[i][RevenueSource])
              /\ isna(TopData[i][RevenueSource]) => isna(TopData[j][RevenueSource])
        /\ \A x \in Rows(CleanData) \ Rows(TopData) : \A t \in Rows(TopData) :
              /\ ~Gt(x[RevenueSource], t[RevenueSource])
              /\ isna(t[RevenueSource]) => isna(x[RevenueSource])

\* more than 20 cleaned rows, and the last of them has the largest revenue
C7_Witness ==
    /\ pc = "top" /\ tieOrder = "reversed"
    /\ Len(CleanData) > TopN /\ Len(TopData) = TopN
    /\ TopData[1] = CleanData[Len(CleanData)]
    /\ Gt(TopData[1][RevenueSource], TopData[2][RevenueSource])

AsRows(data) == [i \in 1..Len(data) |-> [idx |-> i, c |-> data[i]]]

\* C8: when cost and units resolved, the low-margin/high-sales extract holds exactly
\* the cleaned rows with Margin <= the 25th percentile of Margin and units >= the
\* 75th percentile of units, both percentiles taken over the whole cleaned table,
\* ordered by units descending; the cleaned table is what it was when it was saved
C8_LowMarginHighSales ==
    /\ lmhs_name \in written =>
          LET margin_q == quantile(AsRows(CleanData), "Margin", 1)
              units_q == quantile(AsRows(CleanData), un, 3)
          IN  /\ co # None /\ un # None
              /\ Rows(LowData) =
                    {x \in Rows(CleanData) : Le(x["Margin"], margin_q) /\ Ge(x[un], units_q)}
              /\ NoDuplicates(LowData)
              /\ \A i, j \in 1..Len(LowData) : i < j => ~Gt(LowData[j][un], LowData[i][un])
    /\ clean_name \in written => csv_of(df.columns, df.rows) = disk[clean_name]

\* a row is low in margin but not high in sales, a row misses its margin, and rows
\* are selected
C8_Witness ==
    /\ pc = "lmhs" /\ lmhs_name \in written
    /\ Len(CleanData) = MaxQuantRows
    /\ Len(LowData) \in 1..(Len(CleanData) - 1)
    /\ \E x \in Rows(CleanData) :
          /\ Le(x["Margin"], quantile(AsRows(CleanData), "Margin", 1))
          /\ x \notin Rows(LowData)
    /\ \E x \in Rows(CleanData) : isna(x["Margin"])

\* C9: the second run on the same file writes the same files with the same rows in
\* the same order and ends the same way as the first, whatever the first run and
\* earlier runs left in the folder
C9_Idempotent ==
    run = 2 =>
        /\ \A f \in written : disk[f] = out1.disk[f]
        /\ Terminated =>
              /\ written = out1.written
              /\ exitCode = out1.exitCode
              /\ disk = out1.disk

C9_Witness ==
    /\ run = 2 /\ pc = "done"
    /\ written = AllFiles
    /\ Len(CleanData) > 0

PosIn(data, x) == CHOOSE p \in 1..Len(data) : data[p] = x

SameRevenue(x, y) ==
    /\ Comparable(x[RevenueSource]) /\ Comparable(y[RevenueSource])
    /\ ~Gt(x[RevenueSource], y[RevenueSource]) /\ ~Gt(y[RevenueSource], x[RevenueSource])

\* C10 as stated: rows of the top-20 extract with equal revenue are in their order
\* in the cleaned table, and of a tie that reaches across the cut the earlier rows
\* are kept
C10_StableTies ==
    top_name \in written =>
        /\ \A i, j \in 1..Len(TopData) :
              (i < j /\ SameRevenue(TopData[i], TopData[j])) =>
                  PosIn(CleanData, TopData[i]) < PosIn(CleanData, TopData[j])
        /\ \A x \in Rows(CleanData) \ Rows(TopData) : \A t \in Rows(TopData) :
              SameRevenue(x, t) => PosIn(CleanData, t) < PosIn(CleanData, x)

CountRevenue(data, Sel(_)) == Cardinality({p \in 1..Len(data) : Sel(data[p][RevenueSource])})

\* C10 amended: which rows of a revenue tie are kept, and in which order, is left to
\* the sort of the build; for every revenue value v of the extract, the extract holds
\* min(cleaned rows with revenue v, 20 - cleaned rows with a larger revenue) rows of
\* revenue v
C10_TieCounts ==
    top_name \in written =>
        \A t \in Rows(TopData) :
            Comparable(t[RevenueSource]) =>
                LET same(v) == Comparable(v) /\ ~Gt(v, t[RevenueSource]) /\ ~Gt(t[RevenueSource], v)
                    larger(v) == Gt(v, t[RevenueSource])
                IN  CountRevenue(TopData, same) =
                        Min(CountRevenue(CleanData, same), TopN - CountRevenue(CleanData, larger))

\* a tie across the cut of which a later row is kept and an earlier one is not
C10_Witness ==
    /\ pc = "top" /\ Len(CleanData) > TopN
    /\ \E x \in Rows(CleanData) \ Rows(TopData) : \E t \in Rows(TopData) :
          SameRevenue(x, t) /\ PosIn(CleanData, x) < PosIn(CleanData, t)

====
